---- MODULE Spec2Model ----
(***************************************************************************)
(* A model of the a-map-of-us bot (src/main.py, src/bot.py): the payload   *)
(* normaliser (unwrap_data, first_present, pick_text, build_embed), the    *)
(* two-step random resolution (get_random_mous_full), the daily post state *)
(* (load_last_post_date, save_last_post_date), the daily scheduler         *)
(* (daily_mous under discord.ext.tasks.loop) and the slash commands        *)
(* (mous_random, mous_by_id, mous_debug).                                  *)
(***************************************************************************)
EXTENDS Integers, Sequences, FiniteSets, TLC

(***************************************************************************)
(* Bounds of the model.                                                    *)
(***************************************************************************)
\* Deepest chain of "data" wrappers put around a core value.
MaxWrap == 7
\* Calendar days the clock runs through (days 1..MaxDay).
MaxDay == 2
\* Fires of daily_mous in one run of the model.
MaxFires == 2
\* Process restarts in one run of the model.
MaxRestarts == 1

(***************************************************************************)
(* Program constants.                                                      *)
(***************************************************************************)
\* A loop that runs once too often: range(7).
UNWRAP_RANGE_off_by_one == 6 + 1
\* for _ in range(6)
UNWRAP_RANGE == 6
\* The cut made at the length limit of an embed's title, not its description.
DESC_LIMIT_of_a_title == 2 * 128
\* text[:4096]
DESC_LIMIT == 4096
\* if resp.status != 200
HTTP_OK == 200
\* if len(s) > 1800
DEBUG_LIMIT == 1800

(***************************************************************************)
(* Python / JSON values.  A string is a sequence of one-character strings. *)
(* None and JSON null are the same value.  Ref(a) is a reference to the    *)
(* object stored in cell a of Heap: it is how a structure that refers to   *)
(* itself is written down.                                                 *)
(***************************************************************************)
Null == [t |-> "null"]
Str(s) == [t |-> "str", s |-> s]
Num(n) == [t |-> "num", n |-> n]
Bool(b) == [t |-> "bool", b |-> b]
List(l) == [t |-> "list", l |-> l]
Obj(o) == [t |-> "obj", o |-> o]
Ref(a) == [t |-> "ref", a |-> a]

\* {}
EmptyDict == Obj(<<>>)

s_abc == <<"a", "b", "c">>
s_x == <<"x">>
s_hi == <<"h", "i">>
s_padded == <<" ", "h", "i", " ">>
s_bob == <<"b", "o", "b">>
s_blank == <<" ", " ">>
s_empty == <<>>
s_en == <<"e", "n">>
s_day == <<"2", "0", "2", "4">>
s_cat == <<"c", "a", "t">>
\* A text of n characters.
Body(n) == [i \in 1 .. n |-> "x"]

\* Objects that refer to themselves: cell 1 is d with d["data"] = d; cells 2
\* and 3 are a cycle of two objects, one step of it through a list.
Heap ==
  <<Obj("data" :> Ref(1)),
    Obj("data" :> List(<<Ref(3)>>)),
    Obj(("data" :> Ref(2)) @@ ("id" :> Str(s_abc)))>>

Deref(v) == IF v.t = "ref" THEN Heap[v.a] ELSE v

\* isinstance(v, dict), isinstance(v, list), isinstance(v, str)
IsDict(v) == Deref(v).t = "obj"
IsList(v) == Deref(v).t = "list"
IsStr(v) == v.t = "str"

\* Python truthiness, as used by `x or default` and `if nxt`.
Truthy(v) ==
  LET w == Deref(v) IN
    CASE w.t = "null" -> FALSE
      [] w.t = "str" -> Len(w.s) > 0
      [] w.t = "num" -> w.n # 0
      [] w.t = "bool" -> w.b
      [] w.t = "list" -> Len(w.l) > 0
      [] w.t = "obj" -> DOMAIN w.o # {}

\* d.get(k) for a dict d
DictGet(d, k) == IF k \in DOMAIN d.o THEN d.o[k] ELSE Null

IsSpace(c) == c \in {" ", "\t", "\n"}

RECURSIVE lstrip(_)
lstrip(s) ==
  IF s = <<>> THEN s
  ELSE IF IsSpace(Head(s)) THEN lstrip(Tail(s)) ELSE s

RECURSIVE rstrip(_)
rstrip(s) ==
  IF s = <<>> THEN s
  ELSE IF IsSpace(s[Len(s)]) THEN rstrip(SubSeq(s, 1, Len(s) - 1)) ELSE s

\* str.strip()
strip(s) == rstrip(lstrip(s))

(***************************************************************************)
(* unwrap_data: the loop, with the number of descents it made.             *)
(***************************************************************************)
\* A loop that descends into the last element of a list, nxt[-1].
RECURSIVE unwrap_loop_last_element(_, _)
unwrap_loop_last_element(cur, i) ==
  IF i >= UNWRAP_RANGE THEN [cur |-> cur, steps |-> i]
  ELSE IF IsDict(cur) /\ "data" \in DOMAIN Deref(cur).o
    THEN LET nxt == Deref(cur).o["data"] IN
           IF IsDict(nxt) THEN unwrap_loop_last_element(nxt, i + 1)
           ELSE IF IsList(nxt) /\ Truthy(nxt) /\ IsDict(Deref(nxt).l[Len(Deref(nxt).l)])
             THEN unwrap_loop_last_element(Deref(nxt).l[Len(Deref(nxt).l)], i + 1)
             ELSE [cur |-> cur, steps |-> i]
    ELSE [cur |-> cur, steps |-> i]

RECURSIVE unwrap_loop(_, _)
unwrap_loop(cur, i) ==
  IF i >= UNWRAP_RANGE THEN [cur |-> cur, steps |-> i]
  ELSE IF IsDict(cur) /\ "data" \in DOMAIN Deref(cur).o
    THEN LET nxt == Deref(cur).o["data"] IN
           IF IsDict(nxt) THEN unwrap_loop(nxt, i + 1)
           ELSE IF IsList(nxt) /\ Truthy(nxt) /\ IsDict(Deref(nxt).l[1])
             THEN unwrap_loop(Deref(nxt).l[1], i + 1)
             ELSE [cur |-> cur, steps |-> i]
    ELSE [cur |-> cur, steps |-> i]

unwrap_steps(payload) == unwrap_loop(payload, 0).steps

unwrap_data(payload) ==
  LET cur == unwrap_loop(payload, 0).cur IN
    IF IsDict(cur) THEN Deref(cur) ELSE EmptyDict

(***************************************************************************)
(* first_present(d, *keys), for a dict d.                                  *)
(***************************************************************************)
\* A first_present that tests `if not v`: it skips 0, False, [] and {} too.
RECURSIVE first_present_skips_falsy(_, _)
first_present_skips_falsy(d, keys) ==
  IF keys = <<>> THEN Null
  ELSE LET v == DictGet(d, Head(keys)) IN
         IF ~Truthy(v) THEN first_present_skips_falsy(d, Tail(keys))
         ELSE IF IsStr(v) /\ strip(v.s) = <<>> THEN first_present_skips_falsy(d, Tail(keys))
         ELSE v

RECURSIVE first_present(_, _)
first_present(d, keys) ==
  IF keys = <<>> THEN Null
  ELSE LET v == DictGet(d, Head(keys)) IN
         IF v.t = "null" THEN first_present(d, Tail(keys))
         ELSE IF IsStr(v) /\ strip(v.s) = <<>> THEN first_present(d, Tail(keys))
         ELSE v

(***************************************************************************)
(* String literals of the program.                                         *)
(***************************************************************************)
S_Unknown == <<"U", "n", "k", "n", "o", "w", "n">>
S_UnknownDate == <<"U", "n", "k", "n", "o", "w", "n", " ", "d", "a", "t", "e">>
S_mous == <<"m", "o", "u", "s">>
S_unknown_id == <<"u", "n", "k", "n", "o", "w", "n", "-", "i", "d">>
S_NoText == <<"*", "N", "o", " ", "t", "e", "x", "t", " ", "f", "o", "u", "n", "d", ".", "*">>
\* " (U+2022) ": the bullet is written as the one element "U+2022"
S_TitleSep == <<" ", "U+2022", " ">>
S_FooterPrefix == <<"I", "D", ":", " ">>
S_None == <<"N", "o", "n", "e">>
S_True == <<"T", "r", "u", "e">>
S_False == <<"F", "a", "l", "s", "e">>
S_IsoPrefix == <<"2", "0", "2", "4", "-", "0", "1", "-", "0">>

Digit == <<"0", "1", "2", "3", "4", "5", "6", "7", "8", "9">>

RECURSIVE Decimal(_)
Decimal(n) == IF n < 10 THEN <<Digit[n + 1]>> ELSE Decimal(n \div 10) \o <<Digit[(n % 10) + 1]>>

\* str(v) and the {v} of an f-string.  The text of a list or a dict is cut
\* down to its brackets: no field of the model reads inside it.
PyStr(v) ==
  LET w == Deref(v) IN
    CASE w.t = "str" -> w.s
      [] w.t = "num" -> IF w.n < 0 THEN <<"-">> \o Decimal(0 - w.n) ELSE Decimal(w.n)
      [] w.t = "bool" -> IF w.b THEN S_True ELSE S_False
      [] w.t = "null" -> S_None
      [] w.t = "list" -> <<"[", "]">>
      [] w.t = "obj" -> <<"{", "}">>

\* The dict key a Python string is: the characters joined.
RECURSIVE KeyOf(_)
KeyOf(s) == IF s = <<>> THEN "" ELSE Head(s) \o KeyOf(Tail(s))

\* The default left out: the value as first_present returned it.
PyOr_without_default(x, default) == x

\* x or default
PyOr(x, default) == IF Truthy(x) THEN x ELSE default

\* The outcome of a call: a returned value, or an exception raised.
Ok(v) == [ok |-> TRUE, v |-> v]
Raise(e) == [ok |-> FALSE, exc |-> e]

(***************************************************************************)
(* pick_text(data)                                                         *)
(***************************************************************************)
pick_text(data) ==
  LET t == first_present(data, <<"text", "message", "content", "body">>)
      translations == PyOr(DictGet(data, "translations"), EmptyDict)
      lang_v == PyOr(first_present(data, <<"language", "lang">>), Str(<<>>))
  IN
    IF IsStr(t) /\ strip(t.s) # <<>> THEN Ok(strip(t.s))
    ELSE IF ~IsStr(lang_v) THEN Raise("AttributeError")
    ELSE LET lang == strip(lang_v.s) IN
      IF IsDict(translations) /\ lang # <<>>
      THEN LET translated == DictGet(Deref(translations), KeyOf(lang)) IN
             IF IsStr(translated) /\ strip(translated.s) # <<>>
               THEN Ok(strip(translated.s))
             ELSE IF IsDict(translated)
               THEN LET tt == first_present(Deref(translated), <<"text", "value", "content">>) IN
                      IF IsStr(tt) /\ strip(tt.s) # <<>> THEN Ok(strip(tt.s))
                      ELSE Ok(S_NoText)
             ELSE Ok(S_NoText)
      ELSE Ok(S_NoText)

(***************************************************************************)
(* build_embed(payload): the embed's parts, or the exception raised.       *)
(***************************************************************************)
build_embed(payload) ==
  LET data == unwrap_data(payload)
      username == PyOr(first_present(data, <<"username", "user", "author", "display_name", "name">>), Str(S_Unknown))
      memory_date0 == PyOr(first_present(data, <<"memory_date", "memoryDate", "date">>), Str(S_UnknownDate))
      category == PyOr(first_present(data, <<"category", "type">>), Str(S_mous))
      created_at == first_present(data, <<"created_at", "createdAt">>)
      memory_date ==
        IF IsStr(memory_date0) /\ memory_date0.s = S_UnknownDate
             /\ IsStr(created_at) /\ strip(created_at.s) # <<>>
          THEN created_at ELSE memory_date0
      mous_id == PyOr(first_present(data, <<"id", "ID">>), Str(S_unknown_id))
      text == pick_text(data)
  IN
    IF ~text.ok THEN text
    ELSE Ok([title |-> PyStr(category) \o S_TitleSep \o PyStr(memory_date),
             description |-> SubSeq(text.v, 1, IF Len(text.v) < DESC_LIMIT THEN Len(text.v) ELSE DESC_LIMIT),
             author |-> PyStr(username),
             footer |-> S_FooterPrefix \o PyStr(mous_id),
             fields |-> <<>>])

\* The "View" field daily_mous and mous_random add for a string id.
add_view_field(embed, payload) ==
  LET mous_id == first_present(unwrap_data(payload), <<"id", "ID">>) IN
    IF IsStr(mous_id) /\ strip(mous_id.s) # <<>>
      THEN [embed EXCEPT !.fields = Append(@, mous_id.s)]
      ELSE embed

(***************************************************************************)
(* The state file.  Its content is one of: no file; a file that cannot be  *)
(* opened or read; bytes that are not UTF-8; text that is not JSON; a JSON *)
(* value.                                                                  *)
(***************************************************************************)
FileAbsent == [k |-> "absent"]
FileUnreadable == [k |-> "unreadable"]
FileBadUtf8 == [k |-> "badutf8"]
FileBadJson == [k |-> "badjson"]
FileJson(v) == [k |-> "json", v |-> v]

\* date.isoformat() of day d
isoformat(d) == S_IsoPrefix \o <<Digit[d + 1]>>

\* A save that writes the date under another key than load reads.
Marker_wrong_key(date_str) == FileJson(Obj("last_post" :> Str(date_str)))

\* The marker json.dump writes.
Marker(date_str) == FileJson(Obj("last_post_date" :> Str(date_str)))

\* A load that reads the date under another key than the save writes.
load_last_post_date_reads_date_key(f) ==
  CASE f.k = "absent" -> Ok(Null)
    [] f.k = "unreadable" -> Ok(Null)
    [] f.k = "badjson" -> Ok(Null)
    [] f.k = "badutf8" -> Raise("UnicodeDecodeError")
    [] f.k = "json" ->
         IF IsDict(f.v)
           THEN LET value == DictGet(f.v, "date") IN
                  IF IsStr(value) THEN Ok(value) ELSE Ok(Null)
           ELSE Ok(Null)

load_last_post_date(f) ==
  CASE f.k = "absent" -> Ok(Null)
    [] f.k = "unreadable" -> Ok(Null)
    [] f.k = "badjson" -> Ok(Null)
    [] f.k = "badutf8" -> Raise("UnicodeDecodeError")
    [] f.k = "json" ->
         IF IsDict(f.v)
           THEN LET value == DictGet(f.v, "last_post_date") IN
                  IF IsStr(value) THEN Ok(value) ELSE Ok(Null)
           ELSE Ok(Null)

\* The file after save_last_post_date(date_str): written; left alone when
\* open() fails; cut short when the write fails after open() truncated it.
save_last_post_date(f, date_str, io) ==
  CASE io = "ok" -> Marker(date_str)
    [] io = "open_fails" -> f
    [] io = "write_fails" -> FileBadJson

SaveOutcomes == {"ok", "open_fails", "write_fails"}

(***************************************************************************)
(* fetch_payload(url): what it does with the response it gets.             *)
(***************************************************************************)
RespTimeout == [k |-> "timeout"]
RespHttp(status, body) == [k |-> "http", status |-> status, body |-> body]
\* A body resp.json() cannot parse.
NotJson == [t |-> "notjson"]

fetch_payload(resp) ==
  IF resp.k = "timeout" THEN Raise("TimeoutError")
  ELSE IF resp.status # HTTP_OK THEN Raise("RuntimeError_API")
  ELSE IF resp.body.t = "notjson" THEN Raise("ContentTypeError")
  ELSE Ok(resp.body)

(***************************************************************************)
(* get_random_mous_full, after the random payload has arrived: return it,  *)
(* raise, or fetch by id.                                                  *)
(***************************************************************************)
FullKeys == {"text", "username", "memory_date"}

\* A full-record test that looks for the keys in the payload as received,
\* not in the unwrapped record.
after_random_raw_keys(rand_payload) ==
  LET rand_data == unwrap_data(rand_payload)
      maybe_username == first_present(rand_data, <<"username", "text", "memory_date", "category">>)
  IN
    IF maybe_username.t # "null" /\ IsDict(rand_payload)
         /\ (FullKeys \cap DOMAIN Deref(rand_payload).o) # {}
      THEN [k |-> "return", payload |-> rand_payload]
    ELSE IF ~IsDict(rand_payload) THEN [k |-> "raise", exc |-> "AttributeError"]
    ELSE LET rand_id == first_present(Deref(rand_payload), <<"id", "ID">>) IN
           IF ~IsStr(rand_id) \/ strip(rand_id.s) = <<>>
             THEN [k |-> "raise", exc |-> "RuntimeError_no_id"]
             ELSE [k |-> "fetch", id |-> rand_id.s]

after_random(rand_payload) ==
  LET rand_data == unwrap_data(rand_payload)
      maybe_username == first_present(rand_data, <<"username", "text", "memory_date", "category">>)
  IN
    IF maybe_username.t # "null" /\ (FullKeys \cap DOMAIN rand_data.o) # {}
      THEN [k |-> "return", payload |-> rand_payload]
    ELSE IF ~IsDict(rand_payload) THEN [k |-> "raise", exc |-> "AttributeError"]
    ELSE LET rand_id == first_present(Deref(rand_payload), <<"id", "ID">>) IN
           IF ~IsStr(rand_id) \/ strip(rand_id.s) = <<>>
             THEN [k |-> "raise", exc |-> "RuntimeError_no_id"]
             ELSE [k |-> "fetch", id |-> rand_id.s]

(***************************************************************************)
(* What the upstream API may answer.                                       *)
(***************************************************************************)
FullRecord ==
  Obj(("id" :> Str(s_abc)) @@ ("text" :> Str(s_hi)) @@ ("username" :> Str(s_bob))
      @@ ("memory_date" :> Str(s_day)) @@ ("category" :> Str(s_cat)))

\* Bodies GET {base}/random may carry.
RandomBodies ==
  { Obj("id" :> Str(s_abc)),
    Obj("ID" :> Str(s_abc)),
    Obj("id" :> Str(s_blank)),
    Obj("id" :> Num(123)),
    Obj(("id" :> Null) @@ ("ID" :> Str(s_x))),
    Obj("id" :> Str(s_padded)),
    EmptyDict,
    Obj("data" :> Obj("id" :> Str(s_abc))),
    Obj("data" :> List(<<Obj("id" :> Str(s_abc))>>)),
    Obj(("id" :> Str(s_abc)) @@ ("data" :> Obj("x" :> Num(1)))),
    List(<<>>),
    List(<<Obj("id" :> Str(s_abc))>>),
    Null,
    Str(s_abc),
    Num(5),
    FullRecord,
    Obj("data" :> Obj(("text" :> Str(s_hi)) @@ ("id" :> Str(s_abc)))),
    Obj("data" :> Obj("data" :> Obj("username" :> Str(s_bob)))),
    Obj(("text" :> Null) @@ ("id" :> Str(s_abc))),
    Obj("text" :> Str(s_blank)),
    Obj(("username" :> Str(s_empty)) @@ ("category" :> Str(s_cat))),
    Obj(("category" :> Str(s_cat)) @@ ("id" :> Str(s_abc))),
    Obj(("memory_date" :> Str(s_day)) @@ ("id" :> Num(5))),
    Obj(("data" :> Obj("text" :> Str(s_blank))) @@ ("id" :> Str(s_abc))),
    Obj(("text" :> Num(5)) @@ ("id" :> Str(s_abc))),
    Obj(("username" :> Str(s_bob)) @@ ("language" :> Num(5))) }

\* Bodies GET {base}/{id} may carry.
ByIdBodies ==
  { FullRecord,
    Obj("data" :> FullRecord),
    EmptyDict,
    List(<<>>),
    Obj(("id" :> Str(s_abc)) @@ ("language" :> Num(5))),
    Obj(("lang" :> Str(s_en)) @@ ("translations" :> Obj("en" :> Str(s_hi)))) }

ErrorResponses ==
  { RespTimeout, RespHttp(200, NotJson), RespHttp(204, EmptyDict),
    RespHttp(404, Str(s_x)), RespHttp(500, Str(s_x)) }

RandomResponses == {RespHttp(200, b) : b \in RandomBodies} \cup ErrorResponses
ByIdResponses == {RespHttp(200, b) : b \in ByIdBodies} \cup ErrorResponses

(***************************************************************************)
(* The state.                                                              *)
(***************************************************************************)
VARIABLES
  entry,        \* the entry point run: "main" (main.py) or "bot" (bot.py)
  phase,        \* "constructed", "connecting" (setup_hook done), "ready", "dead"
  loopRunning,  \* daily_mous.is_running()
  gate,         \* before_loop is over: the loop may call daily_mous
  day,          \* the calendar day in DAILY_TIMEZONE
  file,         \* DAILY_STATE_FILE
  fire,         \* the invocations of daily_mous, one record each
  nFires,       \* fires so far
  nRestarts,    \* restarts so far
  startMarked,  \* the marker was the date of startDay when the process started
  startDay,     \* the day the process started
  sentOn,       \* per day: a fire of that day sent its post
  posted,       \* per day: a fire of that day sent and wrote the marker
  touched,      \* the state file has been written since the first start
  ranUnready,   \* the body of daily_mous has run before the connection was ready
  arg,          \* a pure function's input
  ret,          \* and its result
  cmd           \* the invocation of a slash command

vars ==
  <<entry, phase, loopRunning, gate, day, file, fire, nFires, nRestarts,
    startMarked, startDay, sentOn, posted, touched, ranUnready, arg, ret, cmd>>

Handlers == {1, 2}
Days == 1 .. MaxDay
NoPayload == [t |-> "none"]
NotCalled == [called |-> FALSE]
\* No slash command is being handled.
NoCommand == [pc |-> "idle"]
S_random == <<"r", "a", "n", "d", "o", "m">>

\* A daily_mous invocation that is not running.  Of a running or finished
\* one: today, the channel, the random payload, the payload resolved, the
\* GETs issued, whether the channel was looked up and a send was tried and
\* succeeded, the outcome of the save, and how the invocation ended.
Idle ==
  [pc |-> "idle", today |-> <<>>, channel |-> "none", rand |-> NoPayload,
   payload |-> NoPayload, gets |-> <<>>, looked |-> FALSE, tried |-> FALSE,
   sent |-> FALSE, saved |-> "", out |-> "none", exc |-> ""]

\* The day whose isoformat() is today.
DayOf(today) == CHOOSE d \in Days : isoformat(d) = today

\* The state file f holds day d's date as its marker.
MarkedAt(f, d) ==
  LET loaded == load_last_post_date(f) IN
    loaded.ok /\ IsStr(loaded.v) /\ loaded.v.s = isoformat(d)

\* State files the process may find when it first starts.
InitFiles ==
  { FileAbsent, FileUnreadable, FileBadUtf8, FileBadJson,
    FileJson(List(<<>>)), FileJson(EmptyDict),
    FileJson(Obj("last_post_date" :> Num(5))),
    Marker(isoformat(0)), Marker(isoformat(1)) }

Init ==
  /\ entry \in {"main", "bot"}
  /\ phase = "constructed"
  /\ loopRunning = FALSE
  /\ gate = FALSE
  /\ day = 1
  /\ file \in InitFiles
  /\ fire = [h \in Handlers |-> Idle]
  /\ nFires = 0
  /\ nRestarts = 0
  /\ startMarked = MarkedAt(file, day)
  /\ startDay = day
  /\ sentOn = [d \in Days |-> FALSE]
  /\ posted = [d \in Days |-> FALSE]
  /\ touched = FALSE
  /\ ranUnready = FALSE
  /\ arg = NoPayload
  /\ ret = NotCalled
  /\ cmd = NoCommand

(***************************************************************************)
(* Start-up: setup_hook, the ready signal, the before_loop gate.           *)
(***************************************************************************)
\* MousBot.setup_hook: sync the commands, then start the loop once.  A
\* failed sync raises out of setup_hook and ends the run.  bot.py registers
\* no before_loop, so its loop may call daily_mous as soon as it is started.
setup_hook ==
  /\ phase = "constructed"
  /\ \E sync_ok \in BOOLEAN :
       IF sync_ok
         THEN /\ phase' = "connecting"
              /\ loopRunning' = TRUE
              /\ gate' = IF loopRunning THEN gate ELSE (entry = "bot")
         ELSE /\ phase' = "dead"
              /\ UNCHANGED <<loopRunning, gate>>
  /\ UNCHANGED <<entry, day, file, fire, nFires, nRestarts, startMarked, startDay, sentOn, posted, touched, ranUnready, arg, ret, cmd>>

\* The host connection signals ready.
on_ready ==
  /\ phase = "connecting"
  /\ phase' = "ready"
  /\ UNCHANGED <<entry, loopRunning, gate, day, file, fire, nFires, nRestarts, startMarked, startDay, sentOn, posted, touched, ranUnready, arg, ret, cmd>>

\* main.py: await bot.wait_until_ready() before the loop's first iteration.
before_daily_mous ==
  /\ entry = "main"
  /\ loopRunning
  /\ ~gate
  /\ phase = "ready"
  /\ gate' = TRUE
  /\ UNCHANGED <<entry, phase, loopRunning, day, file, fire, nFires, nRestarts, startMarked, startDay, sentOn, posted, touched, ranUnready, arg, ret, cmd>>

\* Midnight in DAILY_TIMEZONE.
NextDay ==
  /\ day < MaxDay
  /\ day' = day + 1
  /\ UNCHANGED <<entry, phase, loopRunning, gate, file, fire, nFires, nRestarts, startMarked, startDay, sentOn, posted, touched, ranUnready, arg, ret, cmd>>

\* The process is stopped and started again: only the state file survives.
Restart ==
  /\ nRestarts < MaxRestarts
  /\ nRestarts' = nRestarts + 1
  /\ phase' = "constructed"
  /\ loopRunning' = FALSE
  /\ gate' = FALSE
  /\ fire' = [h \in Handlers |-> Idle]
  /\ startMarked' = MarkedAt(file, day)
  /\ startDay' = day
  /\ UNCHANGED <<entry, day, file, nFires, sentOn, posted, touched, ranUnready, arg, ret, cmd>>

(***************************************************************************)
(* daily_mous                                                              *)
(***************************************************************************)
\* A guard that compares the stored date with datetime.now().isoformat(),
\* which carries the time of day: never equal.
posted_today_vs_datetime(loaded, today) == IsStr(loaded) /\ loaded.s = today \o <<"T">>

\* load_last_post_date() == today
posted_today(loaded, today) == IsStr(loaded) /\ loaded.s = today

\* isinstance(channel, (discord.TextChannel, discord.Thread, discord.DMChannel)):
\* main.py checks it, bot.py does not.
messageable_check(e, kind) == e = "main" => kind = "text"

\* The invocation is over: it returned ("guard", "no_channel",
\* "not_messageable", "sent"), or an exception was caught and dropped
\* ("swallowed"), or an exception left daily_mous ("escaped").
Ended(f, out, exc) == [f EXCEPT !.pc = "done", !.out = out, !.exc = exc]

\* The channel is resolved: stop if main.py finds it not messageable, else
\* call get_random_mous_full, which issues GET {base}/random.
with_channel(f, kind) ==
  IF ~messageable_check(entry, kind)
    THEN Ended([f EXCEPT !.channel = kind], "not_messageable", "")
    ELSE [f EXCEPT !.pc = "fetch_random", !.channel = kind, !.gets = <<S_random>>]

\* build_embed ended as e: its exception is caught, else the View field is
\* added and channel.send called, which a channel with no send method does
\* not have.
send_embed(f, payload, e) ==
  IF ~e.ok THEN Ended([f EXCEPT !.payload = payload], "swallowed", e.exc)
  ELSE IF f.channel = "category"
    THEN Ended([f EXCEPT !.payload = payload], "swallowed", "AttributeError")
  ELSE [f EXCEPT !.pc = "send", !.payload = payload, !.tried = TRUE]

\* The payload is resolved: build_embed, the View field, then channel.send.
with_payload(f, payload) == send_embed(f, payload, build_embed(payload))

\* The loop calls daily_mous: the code up to its first await.  An exception
\* that leaves daily_mous stops the loop.
daily_mous(h) ==
  /\ loopRunning
  /\ gate
  /\ phase \in {"connecting", "ready"}
  /\ nFires < MaxFires
  /\ fire[h].pc = "idle"
  /\ nFires' = nFires + 1
  /\ ranUnready' = (ranUnready \/ phase # "ready")
  /\ LET today == isoformat(day)
         loaded == load_last_post_date(file)
         f == [Idle EXCEPT !.today = today, !.out = "running"]
     IN
       IF ~loaded.ok
         THEN /\ fire' = [fire EXCEPT ![h] = Ended(f, "escaped", loaded.exc)]
              /\ loopRunning' = FALSE
       ELSE IF posted_today(loaded.v, today)
         THEN /\ fire' = [fire EXCEPT ![h] = Ended(f, "guard", "")]
              /\ UNCHANGED loopRunning
       ELSE \E cached \in {"none", "text", "voice", "category"} :
              /\ fire' = [fire EXCEPT ![h] =
                            IF cached = "none"
                              THEN [f EXCEPT !.pc = "fetch_channel", !.looked = TRUE]
                              ELSE with_channel([f EXCEPT !.looked = TRUE], cached)]
              /\ UNCHANGED loopRunning
  /\ UNCHANGED <<entry, phase, gate, day, file, nRestarts, startMarked, startDay, sentOn, posted, touched, arg, ret, cmd>>

\* The timer of tasks.loop runs one invocation at a time.
Tick(h) ==
  /\ \A g \in Handlers : fire[g].pc = "idle"
  /\ h = 1
  /\ daily_mous(h)

\* await bot.fetch_channel(DAILY_CHANNEL_ID) is over: a channel, a
\* discord.HTTPException (caught: return), or another exception (not caught).
FetchChannelDone(h) ==
  /\ fire[h].pc = "fetch_channel"
  /\ \E r \in {"text", "voice", "category", "HTTPException", "InvalidData"} :
       /\ fire' = [fire EXCEPT ![h] =
                     IF r = "HTTPException" THEN Ended(@, "no_channel", "")
                     ELSE IF r = "InvalidData" THEN Ended(@, "escaped", r)
                     ELSE with_channel(@, r)]
       /\ loopRunning' = IF r = "InvalidData" THEN FALSE ELSE loopRunning
  /\ UNCHANGED <<entry, phase, gate, day, file, nFires, nRestarts, startMarked, startDay, sentOn, posted, touched, ranUnready, arg, ret, cmd>>

\* get_random_mous_full: GET {base}/random is over.
FetchRandomDone(h) ==
  /\ fire[h].pc = "fetch_random"
  /\ \E resp \in RandomResponses :
       LET r == fetch_payload(resp)
           g == [fire[h] EXCEPT !.rand = IF r.ok THEN r.v ELSE NoPayload]
       IN fire' = [fire EXCEPT ![h] =
                     IF ~r.ok THEN Ended(g, "swallowed", r.exc)
                     ELSE LET a == after_random(r.v) IN
                       CASE a.k = "return" -> with_payload(g, a.payload)
                         [] a.k = "raise" -> Ended(g, "swallowed", a.exc)
                         [] a.k = "fetch" ->
                              [g EXCEPT !.pc = "fetch_by_id", !.gets = Append(@, a.id)]]
  /\ UNCHANGED <<entry, phase, loopRunning, gate, day, file, nFires, nRestarts, startMarked, startDay, sentOn, posted, touched, ranUnready, arg, ret, cmd>>

\* get_random_mous_full: GET {base}/{id} is over.
FetchByIdDone(h) ==
  /\ fire[h].pc = "fetch_by_id"
  /\ \E resp \in ByIdResponses :
       LET r == fetch_payload(resp) IN
         fire' = [fire EXCEPT ![h] =
                    IF ~r.ok THEN Ended(@, "swallowed", r.exc) ELSE with_payload(@, r.v)]
  /\ UNCHANGED <<entry, phase, loopRunning, gate, day, file, nFires, nRestarts, startMarked, startDay, sentOn, posted, touched, ranUnready, arg, ret, cmd>>

\* A save that does not wait for the send to succeed (as from a finally).
SendDone_saves_always(h) ==
  /\ fire[h].pc = "send"
  /\ \E sent \in BOOLEAN, io \in SaveOutcomes :
       LET f == fire[h]
           d == DayOf(f.today)
       IN /\ file' = save_last_post_date(file, f.today, io)
          /\ fire' = [fire EXCEPT ![h] =
                        IF sent THEN Ended([f EXCEPT !.sent = TRUE, !.saved = io], "sent", "")
                        ELSE Ended([f EXCEPT !.saved = io], "swallowed", "HTTPException")]
          /\ sentOn' = [sentOn EXCEPT ![d] = @ \/ sent]
          /\ posted' = [posted EXCEPT ![d] = @ \/ (sent /\ io = "ok")]
          /\ touched' = (touched \/ io # "open_fails")
  /\ UNCHANGED <<entry, phase, loopRunning, gate, day, nFires, nRestarts, startMarked, startDay, ranUnready, arg, ret, cmd>>

\* A save without its `except OSError`: the error of a failed save reaches
\* the except clause of daily_mous.
SendDone_save_raises(h) ==
  /\ fire[h].pc = "send"
  /\ \E sent \in BOOLEAN, io \in SaveOutcomes :
       LET f == fire[h]
           d == DayOf(f.today)
       IN IF ~sent
            THEN /\ io = "ok"
                 /\ fire' = [fire EXCEPT ![h] = Ended(f, "swallowed", "HTTPException")]
                 /\ UNCHANGED <<file, sentOn, posted, touched>>
            ELSE /\ file' = save_last_post_date(file, f.today, io)
                 /\ fire' = [fire EXCEPT ![h] =
                               IF io = "ok"
                                 THEN Ended([f EXCEPT !.sent = TRUE, !.saved = io], "sent", "")
                                 ELSE Ended([f EXCEPT !.sent = TRUE, !.saved = io], "swallowed", "OSError")]
                 /\ sentOn' = [sentOn EXCEPT ![d] = TRUE]
                 /\ posted' = [posted EXCEPT ![d] = @ \/ io = "ok"]
                 /\ touched' = (touched \/ io # "open_fails")
  /\ UNCHANGED <<entry, phase, loopRunning, gate, day, nFires, nRestarts, startMarked, startDay, ranUnready, arg, ret, cmd>>

\* await channel.send(embed=embed) is over; after a send that succeeded,
\* save_last_post_date(today).
SendDone(h) ==
  /\ fire[h].pc = "send"
  /\ \E sent \in BOOLEAN, io \in SaveOutcomes :
       LET f == fire[h]
           d == DayOf(f.today)
       IN IF ~sent
            THEN /\ io = "ok"
                 /\ fire' = [fire EXCEPT ![h] = Ended(f, "swallowed", "HTTPException")]
                 /\ UNCHANGED <<file, sentOn, posted, touched>>
            ELSE /\ file' = save_last_post_date(file, f.today, io)
                 /\ fire' = [fire EXCEPT ![h] =
                               Ended([f EXCEPT !.sent = TRUE, !.saved = io], "sent", "")]
                 /\ sentOn' = [sentOn EXCEPT ![d] = TRUE]
                 /\ posted' = [posted EXCEPT ![d] = @ \/ io = "ok"]
                 /\ touched' = (touched \/ io # "open_fails")
  /\ UNCHANGED <<entry, phase, loopRunning, gate, day, nFires, nRestarts, startMarked, startDay, ranUnready, arg, ret, cmd>>

\* The invocation's frame is gone; the loop sleeps until its next time.
Returned(h) ==
  /\ fire[h].pc = "done"
  /\ fire' = [fire EXCEPT ![h] = Idle]
  /\ UNCHANGED <<entry, phase, loopRunning, gate, day, file, nFires, nRestarts, startMarked, startDay, sentOn, posted, touched, ranUnready, arg, ret, cmd>>

Next ==
  \/ setup_hook
  \/ on_ready
  \/ before_daily_mous
  \/ NextDay
  \/ Restart
  \/ \E h \in Handlers : Tick(h)
  \/ \E h \in Handlers : FetchChannelDone(h)
  \/ \E h \in Handlers : FetchRandomDone(h)
  \/ \E h \in Handlers : FetchByIdDone(h)
  \/ \E h \in Handlers : SendDone(h)
  \/ \E h \in Handlers : Returned(h)

Spec == Init /\ [][Next]_vars

\* The connection is up, the loop started and past its gate.
InitReady ==
  /\ entry \in {"main", "bot"}
  /\ phase = "ready"
  /\ loopRunning = TRUE
  /\ gate = TRUE
  /\ day = 1
  /\ file \in InitFiles
  /\ fire = [h \in Handlers |-> Idle]
  /\ nFires = 0
  /\ nRestarts = 0
  /\ startMarked = MarkedAt(file, day)
  /\ startDay = day
  /\ sentOn = [d \in Days |-> FALSE]
  /\ posted = [d \in Days |-> FALSE]
  /\ touched = FALSE
  /\ ranUnready = FALSE
  /\ arg = NoPayload
  /\ ret = NotCalled
  /\ cmd = NoCommand

(***************************************************************************)
(* Fires that overlap: daily_mous is called while an earlier call of it is *)
(* still at one of its awaits, as when the body is run by two loops or two *)
(* processes on the same state file.                                       *)
(***************************************************************************)
\* What the API answers while fires overlap: a full record, an id, or a
\* timeout.
OverlapPayloads == {NoPayload, FullRecord, Obj("id" :> Str(s_abc))}

\* The step of fire h took one of these answers.
OverlapAnswer(h) ==
  /\ fire'[h].rand \in OverlapPayloads
  /\ fire'[h].payload \in OverlapPayloads
  /\ fire'[h].exc \in {"", "TimeoutError"}

NextOverlap ==
  \/ NextDay
  \/ \E h \in Handlers : daily_mous(h)
  \/ \E h \in Handlers : FetchChannelDone(h)
  \/ \E h \in Handlers : FetchRandomDone(h) /\ OverlapAnswer(h)
  \/ \E h \in Handlers : FetchByIdDone(h) /\ OverlapAnswer(h)
  \/ \E h \in Handlers : SendDone(h)
  \/ \E h \in Handlers : Returned(h)

SpecOverlap == InitReady /\ [][NextOverlap]_vars

(***************************************************************************)
(* The schedule over the days: the timer fires once on every day, and on   *)
(* the last day every collaborator succeeds (the channel resolves to a     *)
(* text channel, the GETs return a usable payload, the send and the save   *)
(* go through).  What is started is finished: the event loop runs every    *)
(* step that is ready.                                                     *)
(***************************************************************************)
\* The step of fire h is one that succeeds, when the day is the last one.
Healthy(h) ==
  day = MaxDay =>
    /\ fire'[h].channel \in {"none", "text"}
    /\ fire'[h].pc = "done" => fire'[h].out \in {"guard", "sent"}
    /\ fire'[h].saved \in {"", "ok"}

\* The time of tasks.loop has come, on a day that has had no fire yet.
Due(h) ==
  /\ nFires < day
  /\ Tick(h)

TimerFire(h) == Due(h) /\ Healthy(h)

\* Midnight, after the fire of the day, or with no loop left to fire.
Midnight ==
  /\ \A h \in Handlers : fire[h].pc = "idle"
  /\ nFires >= day \/ ~loopRunning
  /\ NextDay

NextLive ==
  \/ Midnight
  \/ \E h \in Handlers : TimerFire(h)
  \/ \E h \in Handlers : FetchChannelDone(h) /\ Healthy(h)
  \/ \E h \in Handlers : FetchRandomDone(h) /\ Healthy(h)
  \/ \E h \in Handlers : FetchByIdDone(h) /\ Healthy(h)
  \/ \E h \in Handlers : SendDone(h) /\ Healthy(h)
  \/ \E h \in Handlers : Returned(h)

\* Midnight comes, the timer fires when due, and every await of a fire is
\* answered.
Fairness ==
  /\ WF_vars(Midnight)
  /\ \A h \in Handlers :
       /\ WF_vars(Due(h))
       /\ WF_vars(FetchChannelDone(h))
       /\ WF_vars(FetchRandomDone(h))
       /\ WF_vars(FetchByIdDone(h))
       /\ WF_vars(SendDone(h))
       /\ WF_vars(Returned(h))

SpecLive == InitReady /\ [][NextLive]_vars /\ Fairness

(***************************************************************************)
(* unwrap_data on its own: the input is drawn from the wrapped values.     *)
(***************************************************************************)
\* One layer around x: {"data": x}, {"data": [x, 1]}, {"data": x, "text": "hi"}.
WrapKinds == {"dict", "list", "sibling"}

Wrap1(kind, x) ==
  CASE kind = "dict" -> Obj("data" :> x)
    [] kind = "list" -> Obj("data" :> List(<<x, Num(1)>>))
    [] kind = "sibling" -> Obj(("data" :> x) @@ ("text" :> Str(s_hi)))

\* The layers ks around core, the first of ks outermost.
RECURSIVE Wrap(_, _)
Wrap(ks, core) == IF ks = <<>> THEN core ELSE Wrap1(Head(ks), Wrap(Tail(ks), core))

WrapCores ==
  { Null, Num(5), Bool(TRUE), Str(s_abc), List(<<>>), List(<<Num(5)>>),
    List(<<Obj("id" :> Str(s_abc))>>), EmptyDict, Obj("id" :> Str(s_abc)),
    Obj("data" :> Null), Obj("data" :> Str(s_abc)), Obj("data" :> List(<<>>)),
    Obj("data" :> List(<<Num(5), EmptyDict>>)),
    Ref(1), Ref(2), Ref(3) }

UnwrapInputs ==
  { Wrap(ks, c) : ks \in UNION {[1 .. n -> WrapKinds] : n \in 0 .. MaxWrap}, c \in WrapCores }

InitUnwrap ==
  /\ entry = "main"
  /\ phase = "constructed"
  /\ loopRunning = FALSE
  /\ gate = FALSE
  /\ day = 1
  /\ file = FileAbsent
  /\ fire = [h \in Handlers |-> Idle]
  /\ nFires = 0
  /\ nRestarts = 0
  /\ startMarked = FALSE
  /\ startDay = 1
  /\ sentOn = [d \in Days |-> FALSE]
  /\ posted = [d \in Days |-> FALSE]
  /\ touched = FALSE
  /\ ranUnready = FALSE
  /\ arg \in UnwrapInputs
  /\ ret = NotCalled
  /\ cmd = NoCommand

\* unwrap_data(arg) is called: the dict returned, the value the loop
\* stopped at, and the descents made.
call_unwrap_data ==
  /\ ~ret.called
  /\ ret' = [called |-> TRUE, data |-> unwrap_data(arg),
             cur |-> unwrap_loop(arg, 0).cur, steps |-> unwrap_steps(arg)]
  /\ UNCHANGED <<entry, phase, loopRunning, gate, day, file, fire, nFires, nRestarts, startMarked, startDay, sentOn, posted, touched, ranUnready, arg, cmd>>

NextUnwrap == call_unwrap_data

SpecUnwrap == InitUnwrap /\ [][NextUnwrap]_vars

(***************************************************************************)
(* The slash commands /mous random, /mous id and /mous debug.  One         *)
(* invocation is handled at a time; the connection is up.                  *)
(***************************************************************************)
\* How a call of the interaction (defer, followup.send) may end.
CallOutcomes == {"ok", "HTTPException"}

\* The ids /mous id may be given.
CommandIds == {s_abc, s_x, s_blank}

\* The ellipsis put after a cut text, written as the one element "U+2026".
S_Ellipsis == <<"U+2026">>

\* Bodies GET {base}/random may carry when /mous debug asks.
DebugBodies ==
  { FullRecord, Obj("id" :> Str(s_abc)), List(<<>>), Null, Num(5),
    Str(Body(DEBUG_LIMIT)), Str(Body(DEBUG_LIMIT + 1)) }

DebugResponses == {RespHttp(200, b) : b \in DebugBodies} \cup ErrorResponses

\* The invocation of command name as its handler starts: nothing fetched,
\* nothing sent.
Command(name, mous_id) ==
  [pc |-> "defer", name |-> name, mous_id |-> mous_id, gets |-> <<>>,
   payload |-> NoPayload, content |-> <<>>, reply |-> "none", out |-> "running",
   exc |-> ""]

\* await interaction.response.defer(...), before the try: an exception of
\* it leaves the handler.
deferred(c, r, pc, gets) ==
  IF r = "ok" THEN [c EXCEPT !.pc = pc, !.gets = gets]
  ELSE [c EXCEPT !.pc = "done", !.out = "escaped", !.exc = r]

\* except Exception as e: the handler goes on to send the error message.
Caught(c, exc) == [c EXCEPT !.pc = "report", !.exc = exc]

\* build_embed ended as e: its exception is caught, else the embed, for
\* /mous random with the View field, goes to followup.send(embed=embed).
reply_embed(c, payload, e) ==
  IF ~e.ok THEN Caught([c EXCEPT !.payload = payload], e.exc)
  ELSE [c EXCEPT !.pc = "send", !.payload = payload,
                 !.content = IF c.name = "random"
                               THEN add_view_field(e.v, payload) ELSE e.v]

\* build_embed(payload), then followup.send(embed=embed).
render(c, payload) == reply_embed(c, payload, build_embed(payload))

mous_random ==
  /\ cmd.pc = "idle"
  /\ \E r \in CallOutcomes :
       cmd' = deferred(Command("random", <<>>), r, "fetch_random", <<S_random>>)
  /\ UNCHANGED <<entry, phase, loopRunning, gate, day, file, fire, nFires, nRestarts, startMarked, startDay, sentOn, posted, touched, ranUnready, arg, ret>>

mous_by_id ==
  /\ cmd.pc = "idle"
  /\ \E mous_id \in CommandIds, r \in CallOutcomes :
       cmd' = deferred(Command("id", mous_id), r, "fetch_by_id", <<mous_id>>)
  /\ UNCHANGED <<entry, phase, loopRunning, gate, day, file, fire, nFires, nRestarts, startMarked, startDay, sentOn, posted, touched, ranUnready, arg, ret>>

mous_debug ==
  /\ cmd.pc = "idle"
  /\ \E r \in CallOutcomes :
       cmd' = deferred(Command("debug", <<>>), r, "fetch_debug", <<S_random>>)
  /\ UNCHANGED <<entry, phase, loopRunning, gate, day, file, fire, nFires, nRestarts, startMarked, startDay, sentOn, posted, touched, ranUnready, arg, ret>>

\* mous_random: GET {base}/random of get_random_mous_full is over.
CommandRandomDone ==
  /\ cmd.pc = "fetch_random"
  /\ \E resp \in RandomResponses :
       LET r == fetch_payload(resp) IN
         cmd' = IF ~r.ok THEN Caught(cmd, r.exc)
                ELSE LET a == after_random(r.v) IN
                  CASE a.k = "return" -> render(cmd, a.payload)
                    [] a.k = "raise" -> Caught(cmd, a.exc)
                    [] a.k = "fetch" ->
                         [cmd EXCEPT !.pc = "fetch_by_id", !.gets = Append(@, a.id)]
  /\ UNCHANGED <<entry, phase, loopRunning, gate, day, file, fire, nFires, nRestarts, startMarked, startDay, sentOn, posted, touched, ranUnready, arg, ret>>

\* mous_by_id, and the second step of mous_random: GET {base}/{id} is over.
CommandByIdDone ==
  /\ cmd.pc = "fetch_by_id"
  /\ \E resp \in ByIdResponses :
       LET r == fetch_payload(resp) IN
         cmd' = IF ~r.ok THEN Caught(cmd, r.exc) ELSE render(cmd, r.v)
  /\ UNCHANGED <<entry, phase, loopRunning, gate, day, file, fire, nFires, nRestarts, startMarked, startDay, sentOn, posted, touched, ranUnready, arg, ret>>

\* mous_debug: GET {base}/random is over; str(payload), cut at 1800.
CommandDebugDone ==
  /\ cmd.pc = "fetch_debug"
  /\ \E resp \in DebugResponses :
       LET r == fetch_payload(resp) IN
         cmd' = IF ~r.ok THEN Caught(cmd, r.exc)
                ELSE LET text == PyStr(r.v) IN
                  [cmd EXCEPT !.pc = "send", !.payload = r.v,
                              !.content = IF Len(text) > DEBUG_LIMIT
                                            THEN SubSeq(text, 1, DEBUG_LIMIT) \o S_Ellipsis
                                            ELSE text]
  /\ UNCHANGED <<entry, phase, loopRunning, gate, day, file, fire, nFires, nRestarts, startMarked, startDay, sentOn, posted, touched, ranUnready, arg, ret>>

\* A handler that records its post in the state file, as daily_mous does.
CommandSendDone_saves_marker ==
  /\ cmd.pc = "send"
  /\ \E r \in CallOutcomes :
       /\ cmd' = IF r = "ok"
                   THEN [cmd EXCEPT !.pc = "done", !.out = "returned",
                                    !.reply = IF cmd.name = "debug" THEN "raw" ELSE "embed"]
                   ELSE Caught(cmd, r)
       /\ file' = IF r = "ok" THEN save_last_post_date(file, isoformat(day), "ok") ELSE file
  /\ UNCHANGED <<entry, phase, loopRunning, gate, day, fire, nFires, nRestarts, startMarked, startDay, sentOn, posted, touched, ranUnready, arg, ret>>

\* await interaction.followup.send(...) in the try is over.
CommandSendDone ==
  /\ cmd.pc = "send"
  /\ \E r \in CallOutcomes :
       cmd' = IF r = "ok"
                THEN [cmd EXCEPT !.pc = "done", !.out = "returned",
                                 !.reply = IF cmd.name = "debug" THEN "raw" ELSE "embed"]
                ELSE Caught(cmd, r)
  /\ UNCHANGED <<entry, phase, loopRunning, gate, day, file, fire, nFires, nRestarts, startMarked, startDay, sentOn, posted, touched, ranUnready, arg, ret>>

\* await interaction.followup.send(error message) in the except clause is
\* over: an exception of it leaves the handler.
CommandReportDone ==
  /\ cmd.pc = "report"
  /\ \E r \in CallOutcomes :
       cmd' = IF r = "ok"
                THEN [cmd EXCEPT !.pc = "done", !.out = "returned", !.reply = "error"]
                ELSE [cmd EXCEPT !.pc = "done", !.out = "escaped", !.exc = r]
  /\ UNCHANGED <<entry, phase, loopRunning, gate, day, file, fire, nFires, nRestarts, startMarked, startDay, sentOn, posted, touched, ranUnready, arg, ret>>

\* The handler's frame is gone.
CommandReturned ==
  /\ cmd.pc = "done"
  /\ cmd' = NoCommand
  /\ UNCHANGED <<entry, phase, loopRunning, gate, day, file, fire, nFires, nRestarts, startMarked, startDay, sentOn, posted, touched, ranUnready, arg, ret>>

NextCommands ==
  \/ mous_random
  \/ mous_by_id
  \/ mous_debug
  \/ CommandRandomDone
  \/ CommandByIdDone
  \/ CommandDebugDone
  \/ CommandSendDone
  \/ CommandReportDone
  \/ CommandReturned

SpecCommands == InitReady /\ [][NextCommands]_vars

(***************************************************************************)
(* The commands and the scheduler on the one event loop: the steps of a    *)
(* command interleave with those of a fire at every await of either.       *)
(***************************************************************************)
\* The step of the command was given the id "abc" if any, and took one of
\* these answers: a full record, or a timeout.
CommandAnswer ==
  /\ cmd'.mous_id \in {<<>>, s_abc}
  /\ cmd'.payload \in {NoPayload, FullRecord}
  /\ cmd'.exc \in {"", "TimeoutError", "HTTPException"}

\* The channel of fire h, once resolved, is a text channel.
TextChannel(h) == fire'[h].channel \in {"none", "text"}

NextInterleaved ==
  \/ NextDay
  \/ \E h \in Handlers : Tick(h) /\ TextChannel(h)
  \/ \E h \in Handlers : FetchChannelDone(h) /\ TextChannel(h)
  \/ \E h \in Handlers : FetchRandomDone(h) /\ OverlapAnswer(h)
  \/ \E h \in Handlers : FetchByIdDone(h) /\ OverlapAnswer(h)
  \/ \E h \in Handlers : SendDone(h)
  \/ \E h \in Handlers : Returned(h)
  \/ mous_random
  \/ mous_by_id /\ CommandAnswer
  \/ mous_debug
  \/ CommandRandomDone /\ CommandAnswer
  \/ CommandByIdDone /\ CommandAnswer
  \/ CommandDebugDone /\ CommandAnswer
  \/ CommandSendDone
  \/ CommandReportDone
  \/ CommandReturned

SpecInterleaved == InitReady /\ [][NextInterleaved]_vars

(***************************************************************************)
(* The pure functions on their own.  Nothing of the bot runs: the input is *)
(* in arg and the call leaves its result in ret.                           *)
(***************************************************************************)
Standstill ==
  /\ entry = "main"
  /\ phase = "constructed"
  /\ loopRunning = FALSE
  /\ gate = FALSE
  /\ day = 1
  /\ file = FileAbsent
  /\ fire = [h \in Handlers |-> Idle]
  /\ nFires = 0
  /\ nRestarts = 0
  /\ startMarked = FALSE
  /\ startDay = 1
  /\ sentOn = [d \in Days |-> FALSE]
  /\ posted = [d \in Days |-> FALSE]
  /\ touched = FALSE
  /\ ranUnready = FALSE
  /\ cmd = NoCommand

StandsStill ==
  UNCHANGED <<entry, phase, loopRunning, gate, day, file, fire, nFires, nRestarts, startMarked, startDay, sentOn, posted, touched, ranUnready, cmd>>

(***************************************************************************)
(* first_present on its own: a dict over three keys and a list of keys.    *)
(***************************************************************************)
Absent == [t |-> "absent"]
s_tab == <<"\t">>

\* What a key of the dict may hold, Absent for a key the dict has not.
FirstPresentValues ==
  { Absent, Null, Str(s_empty), Str(s_blank), Str(s_tab), Str(s_padded), Str(s_x),
    Num(0), Bool(FALSE), List(<<>>) }

FirstPresentDicts ==
  { Obj([k \in {j \in {"a", "b", "c"} : f[j] # Absent} |-> f[k]]) :
      f \in [{"a", "b", "c"} -> FirstPresentValues] }

FirstPresentKeys ==
  { <<>>, <<"a">>, <<"a", "b">>, <<"b", "a">>, <<"a", "b", "c">>, <<"c", "z", "a">> }

InitFirstPresent ==
  /\ Standstill
  /\ arg \in {[d |-> d, keys |-> ks] : d \in FirstPresentDicts, ks \in FirstPresentKeys}
  /\ ret = NotCalled

call_first_present ==
  /\ ~ret.called
  /\ ret' = [called |-> TRUE, v |-> first_present(arg.d, arg.keys)]
  /\ UNCHANGED arg
  /\ StandsStill

SpecFirstPresent == InitFirstPresent /\ [][call_first_present]_vars

(***************************************************************************)
(* build_embed on its own: payloads put together from what they say of the *)
(* author, the date, the category, the id and the body text.               *)
(***************************************************************************)
\* Lengths of the body around the description limit.
BodyLengths == {1, 10, 4095, 4096, 4097, 5000}

AuthorParts ==
  { <<>>, "username" :> Str(s_bob), ("username" :> Str(s_blank)) @@ ("user" :> Str(s_x)),
    "username" :> Num(0), "name" :> Null }

DateParts ==
  { <<>>, "memory_date" :> Str(s_day), "created_at" :> Str(s_abc),
    ("memory_date" :> Str(s_blank)) @@ ("createdAt" :> Str(s_x)),
    ("date" :> Str(s_day)) @@ ("created_at" :> Str(s_abc)),
    ("memoryDate" :> Num(2024)) @@ ("createdAt" :> Str(s_abc)),
    ("created_at" :> Str(s_blank)) @@ ("createdAt" :> Str(s_padded)),
    ("date" :> Num(0)) @@ ("created_at" :> Str(s_abc)),
    ("memory_date" :> Str(S_UnknownDate)) @@ ("created_at" :> Str(s_abc)),
    ("created_at" :> Num(5)) @@ ("createdAt" :> Str(s_x)) }

CategoryParts == { <<>>, "category" :> Str(s_cat), "type" :> Bool(FALSE) }

IdParts == { <<>>, "id" :> Str(s_abc), "id" :> Num(123), "ID" :> Num(0) }

TextParts ==
  { <<>>,
    ("text" :> Str(s_blank)) @@ ("message" :> Str(s_padded)),
    ("lang" :> Str(s_en)) @@ ("translations" :> Obj("en" :> Str(s_hi))),
    "language" :> Num(5),
    "text" :> Str(<<" ">> \o Body(4097) \o <<" ">>) }
  \cup { "text" :> Str(Body(n)) : n \in BodyLengths }

EmbedRecords ==
  { Obj(a @@ d @@ c @@ i @@ t) :
      a \in AuthorParts, d \in DateParts, c \in CategoryParts, i \in IdParts, t \in TextParts }

EmbedInputs ==
  EmbedRecords \cup { Obj("data" :> List(<<r>>)) : r \in EmbedRecords }
    \cup { Null, List(<<>>), Str(s_abc), Obj("data" :> Num(5)) }

InitEmbed ==
  /\ Standstill
  /\ arg \in EmbedInputs
  /\ ret = NotCalled

\* build_embed(arg) is called: the embed, or the exception.
call_build_embed ==
  /\ ~ret.called
  /\ ret' = [called |-> TRUE, embed |-> build_embed(arg)]
  /\ UNCHANGED arg
  /\ StandsStill

SpecEmbed == InitEmbed /\ [][call_build_embed]_vars

(***************************************************************************)
(* pick_text on its own: records put together from what they say under the *)
(* body keys, the language keys and "translations".                        *)
(***************************************************************************)
BodyParts ==
  { <<>>, "text" :> Str(s_hi), "text" :> Str(s_padded),
    ("text" :> Str(s_blank)) @@ ("message" :> Str(s_padded)),
    ("text" :> Num(5)) @@ ("message" :> Str(s_hi)),
    ("text" :> Null) @@ ("body" :> Str(s_x)),
    "content" :> List(<<>>) }

LanguageParts ==
  { <<>>, "language" :> Str(s_en), "lang" :> Str(s_en),
    ("language" :> Str(s_blank)) @@ ("lang" :> Str(s_en)),
    ("language" :> Str(s_x)) @@ ("lang" :> Str(s_en)),
    "language" :> Num(5), "lang" :> List(<<Str(s_en)>>) }

TranslationParts ==
  { <<>>, "translations" :> Null, "translations" :> List(<<>>),
    "translations" :> Str(s_en), "translations" :> EmptyDict }
  \cup { "translations" :> Obj("en" :> v) :
           v \in { Str(s_hi), Str(s_padded), Str(s_blank), Num(5), Null, EmptyDict,
                   Obj("text" :> Str(s_hi)), Obj("value" :> Str(s_padded)),
                   Obj(("text" :> Str(s_blank)) @@ ("content" :> Str(s_abc))),
                   Obj(("text" :> Num(5)) @@ ("value" :> Str(s_x))),
                   Obj("body" :> Str(s_hi)) } }

PickTextInputs ==
  { Obj(b @@ l @@ t) : b \in BodyParts, l \in LanguageParts, t \in TranslationParts }

InitPickText ==
  /\ Standstill
  /\ arg \in PickTextInputs
  /\ ret = NotCalled

\* pick_text(arg) is called: the text returned, or the exception.
call_pick_text ==
  /\ ~ret.called
  /\ ret' = [called |-> TRUE, r |-> pick_text(arg)]
  /\ UNCHANGED arg
  /\ StandsStill

SpecPickText == InitPickText /\ [][call_pick_text]_vars

(***************************************************************************)
(* fetch_payload on its own: one GET, the response it gets in arg.         *)
(***************************************************************************)
FetchStatuses == {200, 201, 202, 204, 206, 301, 304, 400, 404, 429, 500, 503}

FetchBodies ==
  { NotJson, Null, EmptyDict, List(<<>>), Str(s_x), Num(5), FullRecord,
    Obj("id" :> Str(s_abc)), Obj("data" :> FullRecord) }

FetchResponses ==
  {RespHttp(st, b) : st \in FetchStatuses, b \in FetchBodies} \cup {RespTimeout}

InitFetch ==
  /\ Standstill
  /\ arg \in FetchResponses
  /\ ret = NotCalled

\* fetch_payload(url) is called and the GET is answered by arg: the value
\* returned or the exception, and the GETs made.
call_fetch_payload ==
  /\ ~ret.called
  /\ ret' = [called |-> TRUE, r |-> fetch_payload(arg), gets |-> 1]
  /\ UNCHANGED arg
  /\ StandsStill

SpecFetch == InitFetch /\ [][call_fetch_payload]_vars

(***************************************************************************)
(* The properties.                                                         *)
(***************************************************************************)
\* The fire h is running or has just ended.
Live(h) == fire[h].pc # "idle"

\* The fire h did nothing after the guard: no channel lookup, no GET, no
\* send, no save.
DidNothing(h) ==
  /\ fire[h].out = "guard"
  /\ ~fire[h].looked
  /\ fire[h].gets = <<>>
  /\ ~fire[h].tried
  /\ ~fire[h].sent
  /\ fire[h].saved = ""

\* C1: fires not overlapping, once a fire of a day has sent and
\* save_last_post_date has written that day's date, every other fire of
\* that day returns at the guard: no channel lookup, no GET, no send, no
\* save; the day gets no second post.
C1_IdempotentDay ==
  \A h \in Handlers :
    (Live(h) /\ posted[DayOf(fire[h].today)] /\ ~(fire[h].sent /\ fire[h].saved = "ok"))
      => DidNothing(h)

\* A second fire of a day that was posted has returned at the guard.
C1_Witness ==
  \E h \in Handlers :
    /\ fire[h].pc = "done"
    /\ fire[h].out = "guard"
    /\ posted[DayOf(fire[h].today)]
    /\ nFires = 2

\* C2: when the marker is today's date as the process starts, every fire of
\* that day returns at the guard: no channel lookup, no GET, no send and no
\* write of the state file.
C2_RestartResilience ==
  \A h \in Handlers :
    (Live(h) /\ startMarked /\ fire[h].today = isoformat(startDay))
      => (DidNothing(h) /\ MarkedAt(file, startDay))

\* The process started with today's marker and a fire of that day is over.
C2_Witness ==
  \E h \in Handlers :
    /\ fire[h].pc = "done"
    /\ startMarked
    /\ fire[h].today = isoformat(startDay)
    /\ fire[h].out = "guard"

\* The marker read back from the state file: a date some fire of that day
\* sent on, or none.
MarkerIsOfASend ==
  LET loaded == load_last_post_date(file) IN
    /\ loaded.ok
    /\ IsStr(loaded.v) => \E d \in Days : loaded.v.s = isoformat(d) /\ sentOn[d]

\* C3: the state file changes only in the step in which a send has
\* succeeded; a fire whose send did not succeed has made no save; and once
\* the process has written the file, the marker is absent or the date of a
\* day on which a send succeeded.
C3_SaveOnlyAfterSend ==
  /\ [](\A h \in Handlers : (Live(h) /\ ~fire[h].sent) => fire[h].saved = "")
  /\ [](touched => MarkerIsOfASend)
  /\ [][file' # file =>
          \E h \in Handlers : fire[h].pc = "send" /\ fire'[h].pc = "done" /\ fire'[h].sent]_vars

\* A fire has sent and the file holds its date.
C3_Witness ==
  \E h \in Handlers :
    /\ fire[h].pc = "done"
    /\ fire[h].sent
    /\ fire[h].saved = "ok"
    /\ file = Marker(fire[h].today)

\* C4: no exception leaves daily_mous, so the loop is never stopped by
\* one: once started it keeps running.
C4_NothingEscapes ==
  /\ \A h \in Handlers : fire[h].out # "escaped"
  /\ phase \in {"connecting", "ready"} => loopRunning

\* C5: the body of daily_mous never runs before the connection is ready,
\* under main.py and under bot.py.
C5_ReadyGate == ~ranUnready

\* C6: load_last_post_date never raises, in no fire and for no state of
\* the file, and returns a string exactly when the file is a JSON object
\* with a string under "last_post_date".
C6_LoadNeverRaises ==
  /\ \A h \in Handlers : fire[h].exc # "UnicodeDecodeError"
  /\ LET loaded == load_last_post_date(file) IN
       loaded.ok =>
         (IsStr(loaded.v) <=>
            (file.k = "json" /\ IsDict(file.v) /\ IsStr(DictGet(file.v, "last_post_date"))))

\* The random payload of fire h has arrived and been looked at.
Resolved(h) == fire[h].rand # NoPayload

\* The unwrapped random payload has one of the full-record keys.
HasFullKey(p) == (FullKeys \cap DOMAIN unwrap_data(p).o) # {}

\* Some of "username", "text", "memory_date", "category" of the unwrapped
\* payload holds a value that is not null and not a blank string.
HasValue(p) ==
  LET d == unwrap_data(p) IN
    \E k \in {"username", "text", "memory_date", "category"} :
      /\ k \in DOMAIN d.o
      /\ d.o[k].t # "null"
      /\ ~(d.o[k].t = "str" /\ strip(d.o[k].s) = <<>>)

\* get_random_mous_full returned the random payload itself after one GET.
ReturnedRandom(h) ==
  /\ fire[h].payload = fire[h].rand
  /\ fire[h].gets = <<S_random>>

\* C7 as claimed: whenever the unwrapped random payload has any of the keys
\* "text", "username", "memory_date", whatever their values,
\* get_random_mous_full returns the random payload and makes no second GET.
C7_AnyFullKey ==
  \A h \in Handlers : (Resolved(h) /\ HasFullKey(fire[h].rand)) => ReturnedRandom(h)

\* C7 as amended: whenever the unwrapped random payload has any of the keys
\* "text", "username", "memory_date" and some of "username", "text",
\* "memory_date", "category" holds a value that is not null and not a blank
\* string, get_random_mous_full returns the random payload and makes no
\* second GET.
C7_FullKeyWithValue ==
  \A h \in Handlers :
    (Resolved(h) /\ HasFullKey(fire[h].rand) /\ HasValue(fire[h].rand)) => ReturnedRandom(h)

\* A full record under a "data" wrapper was returned as received.
C7_Witness ==
  \E h \in Handlers :
    /\ Resolved(h)
    /\ HasFullKey(fire[h].rand)
    /\ HasValue(fire[h].rand)
    /\ "data" \in DOMAIN fire[h].rand.o
    /\ ReturnedRandom(h)
    /\ fire[h].pc = "send"

\* The id of a record: the first of "id", "ID" that is not null and not a
\* blank string.
IdOf(d) ==
  IF ("id" \in DOMAIN d.o /\ d.o["id"].t # "null"
        /\ ~(d.o["id"].t = "str" /\ strip(d.o["id"].s) = <<>>))
    THEN d.o["id"]
    ELSE IF ("ID" \in DOMAIN d.o /\ d.o["ID"].t # "null"
               /\ ~(d.o["ID"].t = "str" /\ strip(d.o["ID"].s) = <<>>))
      THEN d.o["ID"]
      ELSE Null

\* C8: when the unwrapped random payload has no full-record key and a
\* non-blank string id, at the top level or under a "data" wrapper,
\* get_random_mous_full makes exactly one more GET, to {base}/{id}; and no
\* resolution makes more than two GETs.
C8_OneFollowUp ==
  \A h \in Handlers :
    /\ Len(fire[h].gets) <= 2
    /\ (Resolved(h) /\ ~HasFullKey(fire[h].rand) /\ IsStr(IdOf(unwrap_data(fire[h].rand))))
         => fire[h].gets = <<S_random, IdOf(unwrap_data(fire[h].rand)).s>>

\* The payload as received has no id: it is no object, or neither "id" nor
\* "ID" holds a value that is not null and not a blank string.
IdAbsentOrBlank(p) == IsDict(p) => IdOf(Deref(p)).t = "null"

\* C9: when the random payload has no full-record key, get_random_mous_full
\* fails with the "did not return an id" error, without a second GET,
\* exactly when the id is absent or blank, and it raises no other error of
\* its own.
C9_ShapeError ==
  \A h \in Handlers :
    (Resolved(h) /\ ~HasFullKey(fire[h].rand)) =>
      /\ (fire[h].exc = "RuntimeError_no_id" /\ fire[h].gets = <<S_random>>)
           <=> IdAbsentOrBlank(fire[h].rand)
      /\ ~(fire[h].exc = "AttributeError" /\ fire[h].payload = NoPayload)

\* C10: unwrap_data makes at most 6 descents, returns a dict, and returns {}
\* whenever the value it stopped at is not a dict.
C10_UnwrapBounded ==
  ret.called =>
    /\ ret.steps <= 6
    /\ ret.data.t = "obj"
    /\ ~IsDict(ret.cur) => ret.data = EmptyDict
    /\ IsDict(ret.cur) => ret.data = Deref(ret.cur)

\* The bound stopped the loop: 6 descents made and a dict under "data" left.
C10_Witness ==
  /\ ret.called
  /\ ret.steps = 6
  /\ "data" \in DOMAIN ret.data.o
  /\ IsDict(ret.data.o["data"])

\* The characters str.strip() removes, of those the model writes.
Whitespace == {" ", "\t", "\n"}

\* The key k of d holds a value that is not null and not an empty or
\* whitespace-only string.
Qualifies(d, k) ==
  /\ k \in DOMAIN d.o
  /\ d.o[k] # Null
  /\ ~(d.o[k].t = "str" /\ \A i \in 1 .. Len(d.o[k].s) : d.o[k].s[i] \in Whitespace)

\* C11: first_present(d, keys) returns the value under the first key of
\* keys, in their order, that holds a value which is not null and not an
\* empty or whitespace-only string, whatever lies under the keys before it,
\* and None when no key holds such a value.
C11_FirstQualifying ==
  ret.called =>
    LET Q == {i \in 1 .. Len(arg.keys) : Qualifies(arg.d, arg.keys[i])} IN
      IF Q = {} THEN ret.v = Null
      ELSE \E i \in Q : (\A j \in Q : i <= j) /\ ret.v = arg.d.o[arg.keys[i]]

\* A blank string under an earlier key, the value of a later key returned.
C11_Witness ==
  /\ ret.called
  /\ \E i, j \in 1 .. Len(arg.keys) :
       /\ i < j
       /\ arg.keys[i] \in DOMAIN arg.d.o
       /\ arg.d.o[arg.keys[i]] = Str(s_blank)
       /\ Qualifies(arg.d, arg.keys[j])
       /\ ret.v = arg.d.o[arg.keys[j]]
       /\ ret.v = Num(0)

\* The value the record d gives under the first of keys that qualifies, or
\* null when it gives none.
Given(d, keys) ==
  LET Q == {i \in 1 .. Len(keys) : Qualifies(d, keys[i])} IN
    IF Q = {} THEN Null
    ELSE d.o[keys[CHOOSE i \in Q : \A j \in Q : i <= j]]

\* The text s is the text of the value v, or the default when the record
\* gives no value; it is not empty.
ValueOrDefault(s, v, default) ==
  /\ s \in {PyStr(v), default}
  /\ v = Null => s = default
  /\ s # <<>>

\* The record gives no body text: none of the text keys and no translation.
NoBodyGiven(d) ==
  /\ Given(d, <<"text", "message", "content", "body">>) = Null
  /\ "translations" \notin DOMAIN d.o

BodyText == pick_text(unwrap_data(arg)).v

\* C13: the description of the embed is the first min(len, 4096) characters
\* of the body text: the whole of a body of at most 4096 characters, the
\* first 4096 of a longer one.
C13_HardCut ==
  ret.called /\ ret.embed.ok =>
    LET desc == ret.embed.v.description
        body == BodyText
        n == Len(body)
    IN
      /\ Len(desc) = IF n <= 4096 THEN n ELSE 4096
      /\ desc = SubSeq(body, 1, Len(desc))
      /\ n <= 4096 => desc = body

\* A body of 5000 characters came out as 4096.
C13_Witness ==
  /\ ret.called
  /\ ret.embed.ok
  /\ Len(BodyText) = 5000
  /\ Len(ret.embed.v.description) = 4096

\* C14: fetch_payload makes one GET and returns the parsed body exactly
\* when the status is a success status, 200 to 299, and fails with the API
\* error for every other status.
C14_SuccessIsReturned ==
  (ret.called /\ arg.k = "http" /\ arg.body # NotJson) =>
    /\ ret.gets = 1
    /\ arg.status \in 200 .. 299 => ret.r = Ok(arg.body)
    /\ arg.status \notin 200 .. 299 => ret.r = Raise("RuntimeError_API")

\* The fire h is over and its channel was not resolved: not in the cache,
\* and fetch_channel failed.
ChannelUnresolved(h) ==
  /\ fire[h].pc = "done"
  /\ fire[h].looked
  /\ fire[h].channel = "none"

\* C15: a fire whose channel cannot be resolved, whatever the failure of
\* fetch_channel, returns with no exception, no GET, no send and no save,
\* and leaves the loop running for the next fire.
C15_SilentAbort ==
  \A h \in Handlers :
    ChannelUnresolved(h) =>
      /\ fire[h].out = "no_channel"
      /\ fire[h].exc = ""
      /\ fire[h].gets = <<>>
      /\ ~fire[h].tried
      /\ ~fire[h].sent
      /\ fire[h].saved = ""
      /\ loopRunning

\* C16: every invocation of a slash command ends with a reply to the user
\* (the embed, the raw payload or the error message) and with no exception
\* leaving the handler.
C16_AlwaysReplies ==
  cmd.pc = "done" => (cmd.reply # "none" /\ cmd.out = "returned")

\* C17: the load and the save of daily_mous are not one step.  A fire that
\* starts once the state file holds today's marker returns at the guard,
\* so a day with a written marker gets a second send only from a fire that
\* read the file before the save of the first: fires that overlap.
C17_GuardReadsBeforeSave ==
  [][\A h \in Handlers :
       (fire[h].pc = "idle" /\ fire'[h].pc # "idle" /\ file = Marker(isoformat(day)))
         => (fire'[h].pc = "done" /\ fire'[h].out = "guard" /\ ~fire'[h].looked)]_vars

\* Two fires of one day overlapped: both passed the guard, both sent, and
\* both wrote the marker.
C17_Witness ==
  /\ fire[1].pc = "done"
  /\ fire[2].pc = "done"
  /\ fire[1].today = fire[2].today
  /\ fire[1].sent /\ fire[1].saved = "ok"
  /\ fire[2].sent /\ fire[2].saved = "ok"

NoStep == [t |-> "nostep"]

\* The greedy rule: the value one descent below v, or NoStep.  From an
\* object with a "data" key: the value of the key when it is an object, its
\* first element when it is a non-empty list that begins with an object.
Below(v) ==
  LET w == Deref(v) IN
    IF w.t # "obj" \/ "data" \notin DOMAIN w.o THEN NoStep
    ELSE LET n == Deref(w.o["data"]) IN
      CASE n.t = "obj" -> n
        [] n.t = "list" /\ n.l # <<>> /\ Deref(n.l[1]).t = "obj" -> Deref(n.l[1])
        [] OTHER -> NoStep

\* The value n descents below v.
RECURSIVE Descend(_, _)
Descend(v, n) == IF n = 0 THEN Deref(v) ELSE Descend(Below(v), n - 1)

\* The descents the rule allows from v, counted up to cap.
RECURSIVE Depth(_, _)
Depth(v, cap) == IF cap = 0 \/ Below(v) = NoStep THEN 0 ELSE 1 + Depth(Below(v), cap - 1)

\* C18: unwrap_data makes the descents the greedy rule allows, up to 6: for
\* a payload the rule takes d levels down, it stops d levels down when
\* d <= 6 and 6 levels down when d > 6, and returns the object it stopped
\* at as it is, without the keys of the levels above.
C18_GreedyDescent ==
  ret.called =>
    LET d == Depth(arg, MaxWrap + 6) IN
      /\ ret.steps = IF d <= 6 THEN d ELSE 6
      /\ Deref(ret.cur) = Descend(arg, ret.steps)
      /\ IsDict(arg) => ret.data = Descend(arg, ret.steps)

\* A payload of 7 levels that has a "text" beside its "data": the object
\* returned is the one 6 levels down, and the "text" of the top is gone.
C18_Witness ==
  /\ ret.called
  /\ Depth(arg, MaxWrap + 6) = 7
  /\ ret.steps = 6
  /\ "text" \in DOMAIN arg.o
  /\ ret.data = Descend(arg, 6)
  /\ Below(ret.data) # NoStep
  /\ "text" \notin DOMAIN ret.data.o

\* C19: no failure of a fire disables the schedule.  When the state file
\* can be read, the timer fires on every day and every collaborator
\* succeeds on the last day, a post is sent on the last day, whatever
\* failed on the days before.
C19_TryTomorrow ==
  load_last_post_date(file).ok => <>sentOn[MaxDay]

\* The fire h has sent and its save failed.
SaveFailed(h) == Live(h) /\ fire[h].sent /\ fire[h].saved # "ok"

\* C20: a fire whose save fails after its send returns normally with the
\* loop left running; a fire that has sent takes no further step but its
\* return; the state file then does not hold today's marker: it reads as
\* no marker after a write that failed, and is the file as it was after an
\* open that failed.
C20_SaveFailureSwallowed ==
  /\ [](\A h \in Handlers :
          /\ fire[h].sent => fire[h].pc = "done"
          /\ SaveFailed(h) =>
                /\ fire[h].out = "sent"
                /\ fire[h].exc = ""
                /\ loopRunning
                /\ ~MarkedAt(file, DayOf(fire[h].today))
                /\ fire[h].saved = "write_fails" => load_last_post_date(file) = Ok(Null))
  /\ [][\A h \in Handlers :
          (fire[h].pc = "send" /\ fire'[h].saved = "open_fails") => file' = file]_vars

\* A fire is at its send on a day that has its post already: the save of
\* the earlier fire failed and the guard let this one pass.
C20_Witness ==
  \E h \in Handlers :
    /\ fire[h].pc = "send"
    /\ nFires = 2
    /\ sentOn[DayOf(fire[h].today)]
    /\ ~posted[DayOf(fire[h].today)]

(***************************************************************************)
(* C21: the command handlers never change the state file.  In every        *)
(* interleaving of /mous random, /mous id and /mous debug with the fires   *)
(* of the scheduler: a step of a command leaves the file, the fires and    *)
(* the loop as they are; the file changes only in the step of a fire that  *)
(* has sent its post; and a fire returns at its guard only when the file   *)
(* holds the date of its day, so that no reply of a command, that of a     *)
(* /mous random that succeeded included, keeps the post of the day from    *)
(* being made.                                                             *)
(***************************************************************************)
\* The command is past a step of its handler in this step.
CommandStep == cmd' # cmd

\* Fire h starts in this step and returns at once at its guard.
StopsAtGuard(h) ==
  /\ fire[h].pc = "idle"
  /\ fire'[h].pc = "done"
  /\ fire'[h].out = "guard"

C21_CommandsLeaveTheMarker ==
  [][ /\ CommandStep =>
           UNCHANGED <<file, fire, nFires, loopRunning, gate, sentOn, posted, touched>>
      /\ file' # file =>
           \E h \in Handlers :
             /\ fire[h].pc = "send"
             /\ fire'[h].sent
             /\ file' = save_last_post_date(file, fire[h].today, fire'[h].saved)
      /\ \A h \in Handlers : StopsAtGuard(h) => MarkedAt(file, day)
    ]_vars

\* A /mous random has replied with its embed, nothing has written the file,
\* and the fire of the day is past its guard, about to send.
C21_Witness ==
  /\ cmd.pc = "done"
  /\ cmd.name = "random"
  /\ cmd.reply = "embed"
  /\ ~touched
  /\ \E h \in Handlers : fire[h].pc = "send" /\ fire[h].today = isoformat(day)

(***************************************************************************)
(* C22: pick_text returns the stripped value of the first non-blank string *)
(* among "text", "message", "content", "body"; if there is none, the       *)
(* translation under translations[language], language being the first     *)
(* non-blank string of "language" and "lang", taken when it is a non-blank *)
(* string or an object with a non-blank string under "text", "value" or    *)
(* "content"; else "*No text found.*".  It raises for no shape of these    *)
(* fields.                                                                 *)
(***************************************************************************)
\* v is a string with something other than white space in it.
NonBlankString(v) == IsStr(v) /\ strip(v.s) # <<>>

\* The first of keys under which d holds a non-blank string, Absent if none.
RECURSIVE FirstString(_, _)
FirstString(d, keys) ==
  IF keys = <<>> THEN Absent
  ELSE IF NonBlankString(DictGet(d, Head(keys))) THEN DictGet(d, Head(keys))
  ELSE FirstString(d, Tail(keys))

\* The translation of d in its language, Absent if it has none.
Translation(d) ==
  LET language == FirstString(d, <<"language", "lang">>)
      translations == DictGet(d, "translations")
  IN
    IF language = Absent \/ ~IsDict(translations) THEN Absent
    ELSE LET translated == DictGet(translations, KeyOf(strip(language.s))) IN
      IF NonBlankString(translated) THEN translated
      ELSE IF IsDict(translated) THEN FirstString(translated, <<"text", "value", "content">>)
      ELSE Absent

\* The body the record d is to show.
ResolvedBody(d) ==
  LET direct == FirstString(d, <<"text", "message", "content", "body">>) IN
    IF direct # Absent THEN strip(direct.s)
    ELSE IF Translation(d) # Absent THEN strip(Translation(d).s)
    ELSE S_NoText

C22_BodyResolution ==
  ret.called => ret.r.ok /\ ret.r.v = ResolvedBody(arg)

(***************************************************************************)
(* C23: the date build_embed shows is the first non-blank value among      *)
(* "memory_date", "memoryDate", "date"; only when these give nothing, the  *)
(* first non-blank value among "created_at", "createdAt"; a record with a  *)
(* primary date and a created_at shows the primary date, and a record with *)
(* neither shows "Unknown date".                                           *)
(***************************************************************************)
\* The date the record d is to show.
ResolvedDate(d) ==
  LET primary == Given(d, <<"memory_date", "memoryDate", "date">>)
      fallback == Given(d, <<"created_at", "createdAt">>)
  IN
    IF primary # Null THEN PyStr(primary)
    ELSE IF fallback # Null THEN PyStr(fallback)
    ELSE S_UnknownDate

C23_DateResolution ==
  ret.called /\ ret.embed.ok =>
    LET d == unwrap_data(arg) IN
      \E c \in {PyStr(Given(d, <<"category", "type">>)), S_mous} :
        ret.embed.v.title = c \o S_TitleSep \o ResolvedDate(d)

====
